---- MODULE Spec2Model ----
(***************************************************************************)
(* Model of importApplicationHandler (engine/api/application_import.go):   *)
(* the handler (producer of diagnostics), the goroutine that drains        *)
(* msgChan into allMsg (consumer), the scoped transaction tx and the       *)
(* auto-committing handle db.                                              *)
(***************************************************************************)
EXTENDS Integers, Sequences, FiniteSets, TLC

\* ------------------------------------------------------------------ bounds
MaxUsages == 2     \* pipeline usages of a descriptor
MaxTriggers == 1   \* triggers of a descriptor, over all its usages
MaxBindings == 2   \* hooks + pollers + notification settings of a descriptor
MaxNotifs == 1     \* notification settings of a descriptor

\* ------------------------------------------------------- project catalog
AppName == "app"
DefaultEnvName == "NoEnv"
DefaultEnvID == 1

ProjectPipelines == {"build"}
ProjectApplications == {}
ProjectEnvironments == {"prod"}

PipelineNames == {"build", "ghost"}
DestAppNames == {AppName, "deploy-svc"}
TriggerEnvNames == {DefaultEnvName, "prod", "mars"}
NotifEnvNames == {"", DefaultEnvName, "prod", "mars"}

PipelineID(name) == IF name = "build" THEN 1 ELSE 0
EnvironmentID(name) == IF name = "prod" THEN 2 ELSE 0

\* ---------------------------------------------------------------- helpers
SeqsUpTo(S, n) == UNION {[1..m -> S] : m \in 0..n}

Triggers == [DestApplication : DestAppNames,
             SrcEnvironment : TriggerEnvNames,
             DestEnvironment : TriggerEnvNames]

Notifs == [Pipeline : PipelineNames, Environment : NotifEnvNames]

\* ------------------------------------------------------------- messages
ZeroMessage == [ID |-> "", Args |-> <<>>]
NewMessage(id, args) == [ID |-> id, Args |-> args]

VARIABLES
    exist, forceUpdate, app,   \* inputs of the call
    pc,                        \* position of the handler
    i, j, k,                   \* loop positions
    pipIDs,                    \* app.Pipelines[n].Pipeline.ID
    globalError,
    msgChan, allMsg,           \* the queue and the accumulated sequence
    cpc, cmsg,                 \* the consumer goroutine: position, (msg, ok)
    tx, txWrites, store,       \* the scoped transaction and the durable store
    msgListString, resp,       \* the rendered list and the handler's result
    sent, calls                \* history: messages sent, collaborators called

vars == <<exist, forceUpdate, app, pc, i, j, k, pipIDs, globalError, msgChan,
          allMsg, cpc, cmsg, tx, txWrites, store, msgListString, resp, sent,
          calls>>

\* ------------------------------------------------ sdk.Message.String(al)
\* The rendered text is a sequence of words; <<>> is the empty string.
String(m) ==
    CASE m.ID = "MsgAppImportPipelineNotFound" -> <<"Pipeline", m.Args[1], "not found">>
      [] m.ID = "MsgAppImportAppNotFound" -> <<"Application", m.Args[1], "not found">>
      [] m.ID = "MsgAppImportEnvNotFound" -> <<"Environment", m.Args[1], "not found">>
      [] m.ID = "MsgHookCreated" -> <<"Hook created on", m.Args[1], m.Args[2]>>
      [] m.ID = "MsgPollerCreated" -> <<"Poller created on", m.Args[1], m.Args[2]>>
      [] m.ID = "MsgAppCreated" -> <<"Application", m.Args[1], "created">>
      [] OTHER -> <<>>

\* ------------------------------------------- the render/dedup loop, 275-288
msgFound(list, s) == \E n \in 1..Len(list) : list[n] = s

\* mutant: a rendered text is appended without looking for it in the list
DedupAppendNoCheck(list, s) ==
    IF s # <<>> THEN Append(list, s) ELSE list

DedupAppend(list, s) ==
    IF s # <<>> /\ ~msgFound(list, s) THEN Append(list, s) ELSE list

RECURSIVE RenderLoop(_, _)
RenderLoop(msgs, list) ==
    IF msgs = <<>> THEN list
    ELSE RenderLoop(Tail(msgs), DedupAppend(list, String(Head(msgs))))

\* ------------------------------------------------------------ descriptors
RECURSIVE SumTo(_, _)
SumTo(c, m) == IF m = 0 THEN 0 ELSE c[m] + SumTo(c, m - 1)

\* The usage lists of n usages whose trigger counts are c and whose
\* triggers, in order of appearance, are flat.
UsageList(names, c, flat) ==
    [m \in 1..Len(names) |->
        [Name |-> names[m],
         Triggers |-> SubSeq(flat, SumTo(c, m - 1) + 1, SumTo(c, m))]]

PlainUsageList(names) ==
    [m \in 1..Len(names) |-> [Name |-> names[m], Triggers |-> <<>>]]

TriggerCounts(n) ==
    {c \in [1..n -> 0..MaxTriggers] : SumTo(c, n) <= MaxTriggers}

BindingSizes ==
    {s \in (0..MaxBindings) \X (0..MaxBindings) \X (0..MaxNotifs) :
        s[1] + s[2] + s[3] <= MaxBindings}

Descriptor(usages, hooks, pollers, notifs, rm) ==
    [Pipelines |-> usages, Hooks |-> hooks, RepositoryPollers |-> pollers,
     Notifications |-> notifs, RepositoriesManager |-> rm]

RepositoryFullname == "org/repo"

\* payload.Application() builds the pipelines of the descriptor from their
\* names: their identifiers are zero until something resolves them.
ParsedIDs(a) == [n \in 1..Len(a.Pipelines) |-> 0]

\* State at line 109: the project is loaded, the descriptor parsed, the
\* up-front existence probe answered, the consumer goroutine spawned.
Start(e, f, a) ==
    /\ exist = e
    /\ forceUpdate = f
    /\ app = a
    /\ pc = "begin"
    /\ i = 1 /\ j = 0 /\ k = 0
    /\ pipIDs = ParsedIDs(a)
    /\ globalError = "nil"
    /\ msgChan = [buf |-> <<>>, closed |-> FALSE]
    /\ allMsg = <<>>
    /\ cpc = "recv"
    /\ cmsg = [msg |-> ZeroMessage, ok |-> TRUE]
    /\ tx = "none"
    /\ txWrites = {}
    /\ store = {}
    /\ msgListString = <<>>
    /\ resp = [kind |-> "none"]
    /\ sent = <<>>
    /\ calls = {}

\* Descriptors that exercise the reference validation: usages with
\* triggers, no bindings, imported as a new application.
InitValidation ==
    \E n \in 0..MaxUsages :
      \E names \in [1..n -> PipelineNames], c \in TriggerCounts(n) :
        \E flat \in [1..SumTo(c, n) -> Triggers] :
          Start(FALSE, FALSE,
                Descriptor(UsageList(names, c, flat), <<>>, <<>>, <<>>, FALSE))

\* Descriptors that exercise the apply phase: usages without triggers,
\* hooks, pollers and notification settings, on a new or existing application.
InitApply ==
    \E e \in BOOLEAN, f \in BOOLEAN, rm \in BOOLEAN :
      \E names \in SeqsUpTo(PipelineNames, MaxUsages), s \in BindingSizes :
        \E hooks \in [1..s[1] -> PipelineNames],
           pollers \in [1..s[2] -> PipelineNames],
           notifs \in [1..s[3] -> Notifs] :
          Start(e, f, Descriptor(PlainUsageList(names), hooks, pollers, notifs, rm))

Init == InitValidation \/ InitApply

\* ---------------------------------------------------- channel operations
CanSend == Len(msgChan.buf) < 1 /\ ~msgChan.closed

Send(m) ==
    /\ CanSend
    /\ msgChan' = [msgChan EXCEPT !.buf = Append(@, m)]
    /\ sent' = Append(sent, m)

\* ------------------------------------------------- the consumer, 98-107
\* msg, ok := <-msgChan
ConsumerRecv ==
    /\ cpc = "recv"
    /\ \/ /\ msgChan.buf # <<>>
          /\ cmsg' = [msg |-> Head(msgChan.buf), ok |-> TRUE]
          /\ msgChan' = [msgChan EXCEPT !.buf = Tail(@)]
       \/ /\ msgChan.buf = <<>>
          /\ msgChan.closed
          /\ cmsg' = [msg |-> ZeroMessage, ok |-> FALSE]
          /\ UNCHANGED msgChan
    /\ cpc' = "append"
    /\ UNCHANGED <<exist, forceUpdate, app, pc, i, j, k, pipIDs, globalError,
                   allMsg, tx, txWrites, store, msgListString, resp, sent, calls>>

\* mutant: the consumer puts the message in front of the sequence
ConsumerAppendFront ==
    /\ cpc = "append"
    /\ allMsg' = <<cmsg.msg>> \o allMsg
    /\ cpc' = IF cmsg.ok THEN "recv" ELSE "signal"
    /\ UNCHANGED <<exist, forceUpdate, app, pc, i, j, k, pipIDs, globalError,
                   msgChan, cmsg, tx, txWrites, store, msgListString, resp,
                   sent, calls>>

\* mutant: on a closed queue the consumer returns without signalling done
ConsumerAppendNoSignal ==
    /\ cpc = "append"
    /\ allMsg' = Append(allMsg, cmsg.msg)
    /\ cpc' = IF cmsg.ok THEN "recv" ELSE "exit"
    /\ UNCHANGED <<exist, forceUpdate, app, pc, i, j, k, pipIDs, globalError,
                   msgChan, cmsg, tx, txWrites, store, msgListString, resp,
                   sent, calls>>

\* mutant: the consumer tests ok before it appends
ConsumerAppendIfOk ==
    /\ cpc = "append"
    /\ allMsg' = IF cmsg.ok THEN Append(allMsg, cmsg.msg) ELSE allMsg
    /\ cpc' = IF cmsg.ok THEN "recv" ELSE "signal"
    /\ UNCHANGED <<exist, forceUpdate, app, pc, i, j, k, pipIDs, globalError,
                   msgChan, cmsg, tx, txWrites, store, msgListString, resp,
                   sent, calls>>

\* allMsg = append(allMsg, msg); if !ok { done <- true ... }
ConsumerAppend ==
    /\ cpc = "append"
    /\ allMsg' = Append(allMsg, cmsg.msg)
    /\ cpc' = IF cmsg.ok THEN "recv" ELSE "signal"
    /\ UNCHANGED <<exist, forceUpdate, app, pc, i, j, k, pipIDs, globalError,
                   msgChan, cmsg, tx, txWrites, store, msgListString, resp,
                   sent, calls>>

\* -------------------------------------------------- returns of the handler
\* mutant: the deferred rollback also resets a committed transaction
ReturnRollbackAlways(r) ==
    /\ pc' = "returned"
    /\ resp' = r
    /\ tx' = "rolledback"
    /\ txWrites' = {}

\* A return after line 114 runs the deferred tx.Rollback(); on a committed
\* transaction the rollback changes nothing.
Return(r) ==
    /\ pc' = "returned"
    /\ resp' = r
    /\ tx' = IF tx = "open" THEN "rolledback" ELSE tx
    /\ txWrites' = IF tx = "open" THEN {} ELSE txWrites

\* sdk.WrapError(cause, msg), or a bare error (msg = "")
ErrorResp(msg, cause) == [kind |-> "error", msg |-> msg, cause |-> cause]
JSONResp(list, status) == [kind |-> "json", body |-> list, status |-> status]

\* tx, errBegin := db.Begin(), 109-114
Begin ==
    /\ pc = "begin"
    /\ calls' = calls \cup {<<"db.Begin">>}
    /\ \/ /\ tx' = "open"
          /\ pc' = "existGuard"
          /\ UNCHANGED resp
       \/ /\ pc' = "returned"
          /\ resp' = ErrorResp("Cannot start transaction", "errBegin")
          /\ UNCHANGED tx
    /\ UNCHANGED <<exist, forceUpdate, app, i, j, k, pipIDs, globalError,
                   msgChan, allMsg, cpc, cmsg, txWrites, store, msgListString,
                   sent>>

\* if exist && !forceUpdate { return sdk.ErrApplicationExist }, 118-120
ExistGuard ==
    /\ pc = "existGuard"
    /\ IF exist /\ ~forceUpdate
       THEN Return(ErrorResp("", "ErrApplicationExist"))
       ELSE /\ pc' = IF Len(app.Pipelines) = 0 THEN "apply" ELSE "validate"
            /\ UNCHANGED <<resp, tx, txWrites>>
    /\ UNCHANGED <<exist, forceUpdate, app, i, j, k, pipIDs, globalError,
                   msgChan, allMsg, cpc, cmsg, store, msgListString, sent,
                   calls>>

\* ------------------------------------------- reference validation, 122-168
CurUsage == app.Pipelines[i]
CurTrigger == CurUsage.Triggers[j]

\* Position of the next check after the one at (i, j, k): k = 0 is the
\* pipeline of usage i, k = 1..3 the three checks of its trigger j.
AfterCheck ==
    IF k = 0
    THEN IF Len(CurUsage.Triggers) >= 1 THEN <<i, 1, 1>> ELSE <<i + 1, 0, 0>>
    ELSE IF k < 3 THEN <<i, j, k + 1>>
    ELSE IF j < Len(CurUsage.Triggers) THEN <<i, j + 1, 1>>
    ELSE <<i + 1, 0, 0>>

HooksLen == Len(app.Hooks)
PollersLen == Len(app.RepositoryPollers)
NotifsLen == Len(app.Notifications)

NotifsPc == IF NotifsLen > 0 THEN "notifs" ELSE "close"
PollersPc == IF PollersLen > 0 THEN "pollers" ELSE NotifsPc
HooksPc == IF HooksLen > 0 THEN "hooks" ELSE PollersPc

ValidatePc(ni) == IF ni > Len(app.Pipelines) THEN "apply" ELSE "validate"

Advance ==
    /\ i' = AfterCheck[1]
    /\ j' = AfterCheck[2]
    /\ k' = AfterCheck[3]
    /\ pc' = ValidatePc(AfterCheck[1])

pipelineExistPipeline(name) == name \in ProjectPipelines
applicationExists(name) ==
    name \in ProjectApplications \cup (IF exist THEN {AppName} ELSE {})
environmentExists(name) == name \in ProjectEnvironments

\* mutant: the first miss ends the validation pass
CheckFailFast(needed, lookup, name, found, msgID, errKind, what) ==
    IF ~needed
    THEN /\ Advance
         /\ UNCHANGED <<globalError, msgChan, sent, calls, resp, tx, txWrites>>
    ELSE /\ calls' = calls \cup {<<lookup, name>>}
         /\ \/ /\ Return(ErrorResp(what, "errBegin"))
               /\ UNCHANGED <<i, j, k, globalError, msgChan, sent>>
            \/ /\ found
               /\ Advance
               /\ UNCHANGED <<globalError, msgChan, sent, resp, tx, txWrites>>
            \/ /\ ~found
               /\ Send(NewMessage(msgID, <<name>>))
               /\ globalError' = errKind
               /\ pc' = "apply"
               /\ UNCHANGED <<i, j, k>>
               /\ UNCHANGED <<resp, tx, txWrites>>

\* mutant: the first missing reference decides the error, later ones keep it
CheckKeepFirst(needed, lookup, name, found, msgID, errKind, what) ==
    IF ~needed
    THEN /\ Advance
         /\ UNCHANGED <<globalError, msgChan, sent, calls, resp, tx, txWrites>>
    ELSE /\ calls' = calls \cup {<<lookup, name>>}
         /\ \/ /\ Return(ErrorResp(what, "errBegin"))
               /\ UNCHANGED <<i, j, k, globalError, msgChan, sent>>
            \/ /\ found
               /\ Advance
               /\ UNCHANGED <<globalError, msgChan, sent, resp, tx, txWrites>>
            \/ /\ ~found
               /\ Send(NewMessage(msgID, <<name>>))
               /\ globalError' = IF globalError = "nil" THEN errKind
                                 ELSE globalError
               /\ Advance
               /\ UNCHANGED <<resp, tx, txWrites>>

\* One existence check: skipped when not needed; otherwise the lookup
\* fails (the handler returns), finds the entity, or misses (a diagnostic
\* is sent and globalError overwritten).
Check(needed, lookup, name, found, msgID, errKind, what) ==
    IF ~needed
    THEN /\ Advance
         /\ UNCHANGED <<globalError, msgChan, sent, calls, resp, tx, txWrites>>
    ELSE /\ calls' = calls \cup {<<lookup, name>>}
         /\ \/ /\ Return(ErrorResp(what, "errBegin"))
               /\ UNCHANGED <<i, j, k, globalError, msgChan, sent>>
            \/ /\ found
               /\ Advance
               /\ UNCHANGED <<globalError, msgChan, sent, resp, tx, txWrites>>
            \/ /\ ~found
               /\ Send(NewMessage(msgID, <<name>>))
               /\ globalError' = errKind
               /\ Advance
               /\ UNCHANGED <<resp, tx, txWrites>>

ValidateFrame ==
    UNCHANGED <<exist, forceUpdate, app, pipIDs, allMsg, cpc, cmsg, store,
                msgListString>>

\* 124-131
CheckPipeline ==
    /\ pc = "validate" /\ k = 0
    /\ Check(TRUE, "pipeline.ExistPipeline", CurUsage.Name,
             pipelineExistPipeline(CurUsage.Name),
             "MsgAppImportPipelineNotFound", "ErrPipelineNotFound",
             "Unable to check pipeline")
    /\ ValidateFrame

\* mutant: the destination application of every trigger is looked up
CheckDestApplicationAlways ==
    /\ pc = "validate" /\ k = 1
    /\ Check(TRUE, "application.Exists",
             CurTrigger.DestApplication,
             applicationExists(CurTrigger.DestApplication),
             "MsgAppImportAppNotFound", "ErrApplicationNotFound",
             "Unable to check application")
    /\ ValidateFrame

\* 135-144
CheckDestApplication ==
    /\ pc = "validate" /\ k = 1
    /\ Check(CurTrigger.DestApplication # AppName, "application.Exists",
             CurTrigger.DestApplication,
             applicationExists(CurTrigger.DestApplication),
             "MsgAppImportAppNotFound", "ErrApplicationNotFound",
             "Unable to check application")
    /\ ValidateFrame

\* 146-155
CheckSrcEnvironment ==
    /\ pc = "validate" /\ k = 2
    /\ Check(CurTrigger.SrcEnvironment # DefaultEnvName, "environment.Exists",
             CurTrigger.SrcEnvironment,
             environmentExists(CurTrigger.SrcEnvironment),
             "MsgAppImportEnvNotFound", "ErrNoEnvironment",
             "Unable to check env")
    /\ ValidateFrame

\* 157-166
CheckDestEnvironment ==
    /\ pc = "validate" /\ k = 3
    /\ Check(CurTrigger.DestEnvironment # DefaultEnvName, "environment.Exists",
             CurTrigger.DestEnvironment,
             environmentExists(CurTrigger.DestEnvironment),
             "MsgAppImportEnvNotFound", "ErrNoEnvironment",
             "Unable to check env")
    /\ ValidateFrame

\* ------------------------------------------------------- apply, 170-262
\* application.Import resolves the identifier of every pipeline of the
\* descriptor against the project and inserts the application through tx.
ImportedIDs == [n \in 1..Len(app.Pipelines) |-> PipelineID(app.Pipelines[n].Name)]

\* mutant: the hooks and pollers are processed without a repository manager
AfterImportPcNoGate(err) ==
    IF err = "nil" THEN HooksPc
    ELSE "close"

AfterImportPc(err) ==
    IF err = "nil" /\ app.RepositoriesManager THEN HooksPc
    ELSE IF err = "nil" THEN NotifsPc
    ELSE "close"

\* mutant: the update of an existing application is switched on (the call
\* commented out at line 172) and resolves the pipelines of the descriptor
ImportUpdate ==
    /\ pc = "apply"
    /\ IF globalError # "nil"
       THEN /\ pc' = "close"
            /\ UNCHANGED <<globalError, pipIDs, txWrites, calls>>
       ELSE IF exist
       THEN /\ pc' = AfterImportPc("nil")
            /\ pipIDs' = ImportedIDs
            /\ txWrites' = txWrites \cup {<<"application", AppName>>}
            /\ UNCHANGED <<globalError, calls>>
       ELSE /\ calls' = calls \cup {<<"application.Import">>}
            /\ \/ /\ txWrites' = txWrites \cup {<<"application", AppName>>}
                  /\ pipIDs' = ImportedIDs
                  /\ pc' = "importMsg"
                  /\ UNCHANGED globalError
               \/ /\ \E e \in {"ErrImport", "errImport"} :
                        /\ globalError' = e
                        /\ pc' = AfterImportPc(e)
                  /\ UNCHANGED <<pipIDs, txWrites>>
    /\ i' = 1 /\ j' = 0 /\ k' = 0
    /\ UNCHANGED <<exist, forceUpdate, app, msgChan, allMsg, cpc, cmsg, tx,
                   store, msgListString, resp, sent>>

\* mutant: the apply phase starts whatever the validation found
ImportAlways ==
    /\ pc = "apply"
    /\ IF exist
       THEN /\ pc' = AfterImportPc("nil")
            /\ UNCHANGED <<globalError, pipIDs, txWrites, calls>>
       ELSE /\ calls' = calls \cup {<<"application.Import">>}
            /\ \/ /\ txWrites' = txWrites \cup {<<"application", AppName>>}
                  /\ pipIDs' = ImportedIDs
                  /\ pc' = "importMsg"
                  /\ UNCHANGED globalError
               \/ /\ \E e \in {"ErrImport", "errImport"} :
                        /\ globalError' = e
                        /\ pc' = AfterImportPc(e)
                  /\ UNCHANGED <<pipIDs, txWrites>>
    /\ i' = 1 /\ j' = 0 /\ k' = 0
    /\ UNCHANGED <<exist, forceUpdate, app, msgChan, allMsg, cpc, cmsg, tx,
                   store, msgListString, resp, sent>>

\* 170-176
Import ==
    /\ pc = "apply"
    /\ IF globalError # "nil"
       THEN /\ pc' = "close"
            /\ UNCHANGED <<globalError, pipIDs, txWrites, calls>>
       ELSE IF exist
       THEN /\ pc' = AfterImportPc("nil")
            /\ UNCHANGED <<globalError, pipIDs, txWrites, calls>>
       ELSE /\ calls' = calls \cup {<<"application.Import">>}
            /\ \/ /\ txWrites' = txWrites \cup {<<"application", AppName>>}
                  /\ pipIDs' = ImportedIDs
                  /\ pc' = "importMsg"
                  /\ UNCHANGED globalError
               \/ /\ \E e \in {"ErrImport", "errImport"} :
                        /\ globalError' = e
                        /\ pc' = AfterImportPc(e)
                  /\ UNCHANGED <<pipIDs, txWrites>>
    /\ i' = 1 /\ j' = 0 /\ k' = 0
    /\ UNCHANGED <<exist, forceUpdate, app, msgChan, allMsg, cpc, cmsg, tx,
                   store, msgListString, resp, sent>>

\* application.Import reports what it created on msgChan
ImportMsg ==
    /\ pc = "importMsg"
    /\ Send(NewMessage("MsgAppCreated", <<AppName>>))
    /\ pc' = AfterImportPc("nil")
    /\ UNCHANGED <<exist, forceUpdate, app, i, j, k, pipIDs, globalError,
                   allMsg, cpc, cmsg, tx, txWrites, store, msgListString,
                   resp, calls>>

\* the inner loops of 180-185, 201-206 and 231-236: the identifier of the
\* first pipeline usage of that name, or the zero the descriptor was
\* parsed with
ResolvePipelineID(name) ==
    LET hits == {n \in 1..Len(app.Pipelines) : app.Pipelines[n].Name = name}
    IN IF hits = {} THEN 0
       ELSE pipIDs[CHOOSE n \in hits : \A m \in hits : n <= m]

LoopPc(here, len, after) == IF i + 1 > len THEN after ELSE here

\* mutant: an unresolved hook pipeline is reported and the loop goes on
HookSoft ==
    /\ pc = "hooks"
    /\ LET name == app.Hooks[i] IN
       IF ResolvePipelineID(name) = 0
       THEN /\ Send(NewMessage("MsgAppImportPipelineNotFound", <<name>>))
            /\ pc' = LoopPc("hooks", HooksLen, PollersPc)
            /\ i' = IF i + 1 > HooksLen THEN 1 ELSE i + 1
            /\ UNCHANGED <<store, calls, resp, tx, txWrites>>
       ELSE /\ calls' = calls \cup {<<"hook.CreateHook", i, ResolvePipelineID(name)>>}
            /\ \/ /\ store' = store \cup {<<"hook", i>>}
                  /\ pc' = "hookMsg"
                  /\ UNCHANGED <<i, resp, tx, txWrites>>
               \/ /\ Return(ErrorResp("Unable to insert hook", "err"))
                  /\ UNCHANGED <<i, store>>
            /\ UNCHANGED <<msgChan, sent>>
    /\ UNCHANGED <<exist, forceUpdate, app, j, k, pipIDs, globalError,
                   allMsg, cpc, cmsg, msgListString>>

\* 179-193
Hook ==
    /\ pc = "hooks"
    /\ LET name == app.Hooks[i] IN
       IF ResolvePipelineID(name) = 0
       THEN /\ Send(NewMessage("MsgAppImportPipelineNotFound", <<name>>))
            /\ Return(ErrorResp("Pipeline not found for hook", "ErrPipelineNotFound"))
            /\ UNCHANGED <<store, calls>>
       ELSE /\ calls' = calls \cup {<<"hook.CreateHook", i, ResolvePipelineID(name)>>}
            /\ \/ /\ store' = store \cup {<<"hook", i>>}
                  /\ pc' = "hookMsg"
                  /\ UNCHANGED <<resp, tx, txWrites>>
               \/ /\ Return(ErrorResp("Unable to insert hook", "err"))
                  /\ UNCHANGED store
            /\ UNCHANGED <<msgChan, sent>>
    /\ UNCHANGED <<exist, forceUpdate, app, i, j, k, pipIDs, globalError,
                   allMsg, cpc, cmsg, msgListString>>

\* mutant: a created hook is not reported
HookMsgSilent ==
    /\ pc = "hookMsg"
    /\ pc' = LoopPc("hooks", HooksLen, PollersPc)
    /\ i' = IF i + 1 > HooksLen THEN 1 ELSE i + 1
    /\ UNCHANGED <<exist, forceUpdate, app, j, k, pipIDs, globalError, allMsg,
                   cpc, cmsg, tx, txWrites, store, msgListString, resp, calls,
                   msgChan, sent>>

\* 194-196
HookMsg ==
    /\ pc = "hookMsg"
    /\ Send(NewMessage("MsgHookCreated", <<RepositoryFullname, app.Hooks[i]>>))
    /\ pc' = LoopPc("hooks", HooksLen, PollersPc)
    /\ i' = IF i + 1 > HooksLen THEN 1 ELSE i + 1
    /\ UNCHANGED <<exist, forceUpdate, app, j, k, pipIDs, globalError, allMsg,
                   cpc, cmsg, tx, txWrites, store, msgListString, resp, calls>>

\* 200-220
Poller ==
    /\ pc = "pollers"
    /\ LET name == app.RepositoryPollers[i] IN
       IF ResolvePipelineID(name) = 0
       THEN /\ Send(NewMessage("MsgAppImportPipelineNotFound", <<name>>))
            /\ Return(ErrorResp("Pipeline not found", "ErrPipelineNotFound"))
            /\ UNCHANGED <<store, calls>>
       ELSE /\ calls' = calls \cup {<<"poller.Insert", i, ResolvePipelineID(name)>>}
            /\ \/ /\ store' = store \cup {<<"poller", i>>}
                  /\ pc' = "pollerMsg"
                  /\ UNCHANGED <<resp, tx, txWrites>>
               \/ /\ Return(ErrorResp("Unable to insert poller", "err"))
                  /\ UNCHANGED store
            /\ UNCHANGED <<msgChan, sent>>
    /\ UNCHANGED <<exist, forceUpdate, app, i, j, k, pipIDs, globalError,
                   allMsg, cpc, cmsg, msgListString>>

\* 221-223
PollerMsg ==
    /\ pc = "pollerMsg"
    /\ Send(NewMessage("MsgPollerCreated",
                       <<RepositoryFullname, app.RepositoryPollers[i]>>))
    /\ pc' = LoopPc("pollers", PollersLen, NotifsPc)
    /\ i' = IF i + 1 > PollersLen THEN 1 ELSE i + 1
    /\ UNCHANGED <<exist, forceUpdate, app, j, k, pipIDs, globalError, allMsg,
                   cpc, cmsg, tx, txWrites, store, msgListString, resp, calls>>

\* 238-248
ResolveEnvironmentID(name) ==
    IF name = "" \/ name = DefaultEnvName THEN DefaultEnvID
    ELSE IF name \in ProjectEnvironments THEN EnvironmentID(name)
    ELSE 0

\* mutant: the notification loop does not test the environment it resolved
NotificationNoEnvCheck ==
    /\ pc = "notifs"
    /\ LET notif == app.Notifications[i]
           pipID == ResolvePipelineID(notif.Pipeline)
           envID == ResolveEnvironmentID(notif.Environment)
       IN IF pipID = 0
          THEN /\ Return(ErrorResp("Pipeline not found for notification", "ErrPipelineNotFound"))
               /\ UNCHANGED <<i, calls>>
          ELSE /\ calls' = calls \cup
                     {<<"notification.InsertOrUpdateUserNotificationSettings",
                        i, pipID, envID>>}
               /\ \/ /\ txWrites' = txWrites \cup {<<"notification", i>>}
                     /\ pc' = LoopPc("notifs", NotifsLen, "close")
                     /\ i' = i + 1
                     /\ UNCHANGED <<resp, tx>>
                  \/ /\ Return(ErrorResp("Unable to insert notification", "err"))
                     /\ UNCHANGED i
    /\ UNCHANGED <<exist, forceUpdate, app, j, k, pipIDs, globalError, msgChan,
                   allMsg, cpc, cmsg, store, msgListString, sent>>

\* 228-261
Notification ==
    /\ pc = "notifs"
    /\ LET notif == app.Notifications[i]
           pipID == ResolvePipelineID(notif.Pipeline)
           envID == ResolveEnvironmentID(notif.Environment)
       IN IF pipID = 0
          THEN /\ Return(ErrorResp("Pipeline not found for notification", "ErrPipelineNotFound"))
               /\ UNCHANGED <<i, calls>>
          ELSE IF envID = 0
          THEN /\ Return(ErrorResp("Environment not found for notification", "ErrNoEnvironment"))
               /\ UNCHANGED <<i, calls>>
          ELSE /\ calls' = calls \cup
                     {<<"notification.InsertOrUpdateUserNotificationSettings",
                        i, pipID, envID>>}
               /\ \/ /\ txWrites' = txWrites \cup {<<"notification", i>>}
                     /\ pc' = LoopPc("notifs", NotifsLen, "close")
                     /\ i' = i + 1
                     /\ UNCHANGED <<resp, tx>>
                  \/ /\ Return(ErrorResp("Unable to insert notification", "err"))
                     /\ UNCHANGED i
    /\ UNCHANGED <<exist, forceUpdate, app, j, k, pipIDs, globalError, msgChan,
                   allMsg, cpc, cmsg, store, msgListString, sent>>

\* ------------------------------------------------- finalisation, 269-318
\* close(msgChan)
Close ==
    /\ pc = "close"
    /\ msgChan' = [msgChan EXCEPT !.closed = TRUE]
    /\ pc' = "waitDone"
    /\ UNCHANGED <<exist, forceUpdate, app, i, j, k, pipIDs, globalError,
                   allMsg, cpc, cmsg, tx, txWrites, store, msgListString,
                   resp, sent, calls>>

\* mutant: the handler does not wait for the consumer's signal
DoneNoWait ==
    /\ pc = "waitDone"
    /\ pc' = "render"
    /\ UNCHANGED <<exist, forceUpdate, app, i, j, k, pipIDs, globalError,
                   msgChan, allMsg, cpc, cmsg, tx, txWrites, store,
                   msgListString, resp, sent, calls>>

\* done <- true in the consumer meets <-done in the handler (unbuffered)
Done ==
    /\ pc = "waitDone"
    /\ cpc = "signal"
    /\ pc' = "render"
    /\ cpc' = "exit"
    /\ UNCHANGED <<exist, forceUpdate, app, i, j, k, pipIDs, globalError,
                   msgChan, allMsg, cmsg, tx, txWrites, store, msgListString,
                   resp, sent, calls>>

\* 272-288: the handler reads allMsg
Render ==
    /\ pc = "render"
    /\ msgListString' = RenderLoop(allMsg, <<>>)
    /\ pc' = "respond"
    /\ UNCHANGED <<exist, forceUpdate, app, i, j, k, pipIDs, globalError,
                   msgChan, allMsg, cpc, cmsg, tx, txWrites, store, resp,
                   sent, calls>>

\* errors that are *sdk.Error values and so carry a Status
IsSdkError(e) == e \in {"ErrPipelineNotFound", "ErrApplicationNotFound",
                        "ErrNoEnvironment", "ErrImport"}

\* 292-298
Respond ==
    /\ pc = "respond"
    /\ IF globalError # "nil"
       THEN IF IsSdkError(globalError)
            THEN Return(JSONResp(msgListString, globalError))
            ELSE Return(ErrorResp("Unable import pipeline", globalError))
       ELSE /\ pc' = "updateLastModified"
            /\ UNCHANGED <<resp, tx, txWrites>>
    /\ UNCHANGED <<exist, forceUpdate, app, i, j, k, pipIDs, globalError,
                   msgChan, allMsg, cpc, cmsg, store, msgListString, sent,
                   calls>>

\* 300-302
UpdateLastModified ==
    /\ pc = "updateLastModified"
    /\ calls' = calls \cup {<<"project.UpdateLastModified">>}
    /\ \/ /\ txWrites' = txWrites \cup {<<"lastModified">>}
          /\ pc' = "commit"
          /\ UNCHANGED <<resp, tx>>
       \/ Return(ErrorResp("Unable to update project", "err"))
    /\ UNCHANGED <<exist, forceUpdate, app, i, j, k, pipIDs, globalError,
                   msgChan, allMsg, cpc, cmsg, store, msgListString, sent>>

\* 304-306
Commit ==
    /\ pc = "commit"
    /\ calls' = calls \cup {<<"tx.Commit">>}
    /\ \/ /\ store' = store \cup txWrites
          /\ txWrites' = {}
          /\ tx' = "committed"
          /\ pc' = "loadAll"
          /\ UNCHANGED resp
       \/ /\ Return(ErrorResp("Cannot commit transaction", "err"))
          /\ UNCHANGED store
    /\ UNCHANGED <<exist, forceUpdate, app, i, j, k, pipIDs, globalError,
                   msgChan, allMsg, cpc, cmsg, msgListString, sent>>

\* 308-312
LoadAll ==
    /\ pc = "loadAll"
    /\ calls' = calls \cup {<<"application.LoadAll">>}
    /\ \/ /\ pc' = "sanity"
          /\ UNCHANGED <<resp, tx, txWrites>>
       \/ Return(ErrorResp("Unable to reload applications", "errapp"))
    /\ UNCHANGED <<exist, forceUpdate, app, i, j, k, pipIDs, globalError,
                   msgChan, allMsg, cpc, cmsg, store, msgListString, sent>>

\* 314-318
CheckApplication ==
    /\ pc = "sanity"
    /\ calls' = calls \cup {<<"sanity.CheckApplication">>}
    /\ \/ Return(JSONResp(msgListString, "StatusOK"))
       \/ Return(ErrorResp("Cannot check warnings", "err"))
    /\ UNCHANGED <<exist, forceUpdate, app, i, j, k, pipIDs, globalError,
                   msgChan, allMsg, cpc, cmsg, store, msgListString, sent>>

Next ==
    \/ Begin
    \/ ExistGuard
    \/ CheckPipeline
    \/ CheckDestApplication
    \/ CheckSrcEnvironment
    \/ CheckDestEnvironment
    \/ Import
    \/ ImportMsg
    \/ Hook
    \/ HookMsg
    \/ Poller
    \/ PollerMsg
    \/ Notification
    \/ Close
    \/ Done
    \/ Render
    \/ Respond
    \/ UpdateLastModified
    \/ Commit
    \/ LoadAll
    \/ CheckApplication
    \/ ConsumerRecv
    \/ ConsumerAppend

Spec == Init /\ [][Next]_vars

\* ---- scheduling: the handler goroutine and the consumer goroutine of
\* line 98 each keep running while they have a step to take, and the
\* rendezvous on done happens once both sides are at it
Handler ==
    \/ Begin \/ ExistGuard
    \/ CheckPipeline \/ CheckDestApplication
    \/ CheckSrcEnvironment \/ CheckDestEnvironment
    \/ Import \/ ImportMsg
    \/ Hook \/ HookMsg \/ Poller \/ PollerMsg \/ Notification
    \/ Close \/ Render \/ Respond
    \/ UpdateLastModified \/ Commit \/ LoadAll \/ CheckApplication

Consumer == ConsumerRecv \/ ConsumerAppend

FairSpec ==
    /\ Init /\ [][Next]_vars
    /\ WF_vars(Handler)
    /\ WF_vars(Consumer)
    /\ WF_vars(Done)

\* ================================================================ claims
NotFoundErrors == {"ErrPipelineNotFound", "ErrApplicationNotFound",
                   "ErrNoEnvironment"}

\* Returns taken before the reference validation has completed.
EarlyMsgs == {"Cannot start transaction", "", "Unable to check pipeline",
              "Unable to check application", "Unable to check env"}

ImportRecords ==
    {<<"application", AppName>>, <<"lastModified">>}
        \cup {<<"hook", n>> : n \in 1..HooksLen}
        \cup {<<"poller", n>> : n \in 1..PollersLen}
        \cup {<<"notification", n>> : n \in 1..NotifsLen}

\* C1 (atomicity): once the handler has returned from an import whose
\* transaction was not committed, no application, hook, poller or
\* notification record written by that import is in the store.
C1_Atomicity ==
    (pc = "returned" /\ tx # "committed") => store \cap ImportRecords = {}

\* C2 (diagnostics on every terminal outcome): a return that follows the
\* validation pass (success, validation rejection, apply-phase hard stop or
\* persistence failure) of an import that emitted diagnostics carries the
\* deduplicated list of every diagnostic emitted.
C2_DiagnosticsReturned ==
    (pc = "returned" /\ sent # <<>> /\ ~(resp.kind = "error" /\ resp.msg \in EarlyMsgs))
        => (resp.kind = "json" /\ resp.body = RenderLoop(sent, <<>>))

Lookups == {c \in calls : c[1] \in {"pipeline.ExistPipeline",
                                    "application.Exists",
                                    "environment.Exists"}}

\* C3 (exists-guard): when the application exists and forceUpdate is unset,
\* no transaction is ever opened, no existence lookup is made, no diagnostic
\* is sent, nothing is written, and the call ends with AlreadyExists.
C3_ExistsGuard ==
    (exist /\ ~forceUpdate) =>
        /\ tx = "none"
        /\ Lookups = {}
        /\ sent = <<>>
        /\ store = {} /\ txWrites = {}
        /\ pc = "returned" => resp = ErrorResp("", "ErrApplicationExist")

\* ---- what the reference validation should report, from the descriptor
Miss(needed, found, msgID, name) ==
    IF needed /\ ~found THEN <<NewMessage(msgID, <<name>>)>> ELSE <<>>

TriggerMisses(t) ==
    Miss(t.DestApplication # AppName, applicationExists(t.DestApplication),
         "MsgAppImportAppNotFound", t.DestApplication)
    \o Miss(t.SrcEnvironment # DefaultEnvName, environmentExists(t.SrcEnvironment),
            "MsgAppImportEnvNotFound", t.SrcEnvironment)
    \o Miss(t.DestEnvironment # DefaultEnvName, environmentExists(t.DestEnvironment),
            "MsgAppImportEnvNotFound", t.DestEnvironment)

RECURSIVE TriggersMisses(_)
TriggersMisses(ts) ==
    IF ts = <<>> THEN <<>> ELSE TriggerMisses(Head(ts)) \o TriggersMisses(Tail(ts))

RECURSIVE UsagesMisses(_)
UsagesMisses(us) ==
    IF us = <<>> THEN <<>>
    ELSE Miss(TRUE, pipelineExistPipeline(Head(us).Name),
              "MsgAppImportPipelineNotFound", Head(us).Name)
         \o TriggersMisses(Head(us).Triggers)
         \o UsagesMisses(Tail(us))

ExpectedMisses == UsagesMisses(app.Pipelines)

TriggerLookups(t) ==
    (IF t.DestApplication # AppName
     THEN {<<"application.Exists", t.DestApplication>>} ELSE {})
    \cup {<<"environment.Exists", e>> :
             e \in {t.SrcEnvironment, t.DestEnvironment} \ {DefaultEnvName}}

ExpectedLookups ==
    UNION {{<<"pipeline.ExistPipeline", app.Pipelines[n].Name>>}
           \cup UNION {TriggerLookups(app.Pipelines[n].Triggers[m]) :
                          m \in 1..Len(app.Pipelines[n].Triggers)} :
           n \in 1..Len(app.Pipelines)}

IsPrefix(a, b) == Len(a) <= Len(b) /\ SubSeq(b, 1, Len(a)) = a

EarlyReturn == pc = "returned" /\ resp.kind = "error" /\ resp.msg \in EarlyMsgs

\* The validation pass ran to its end (no lookup failed).
Validated == pc \notin {"begin", "existGuard", "validate"} /\ ~EarlyReturn

\* C4 (completeness of validation): when every lookup succeeds the pass
\* sends exactly the not-found diagnostics of the descriptor's missing
\* references, one per reference, in the order usage by usage and, within
\* a usage, pipeline, then per trigger destination application, source
\* environment, destination environment; it visits every usage and trigger;
\* and with one or more missing references the import is rejected.
C4_ValidationComplete ==
    LET expected == ExpectedMisses IN
    /\ pc = "validate" => IsPrefix(sent, expected)
    /\ pc = "apply" => sent = expected
    /\ Validated =>
          /\ IsPrefix(expected, sent)
          /\ Lookups = ExpectedLookups
          /\ expected # <<>> =>
                /\ sent = expected
                /\ globalError \in NotFoundErrors
                /\ pc = "returned" =>
                      /\ resp.kind = "json"
                      /\ resp.status \in NotFoundErrors
                      /\ resp.body = RenderLoop(expected, <<>>)

C4_Witness ==
    /\ pc = "returned"
    /\ resp.kind = "json"
    /\ Len(app.Pipelines) = 2
    /\ app.Pipelines[1].Name = "ghost"
    /\ Len(sent) >= 3

BindingCalls ==
    {c \in calls : c[1] \in {"hook.CreateHook", "poller.Insert",
        "notification.InsertOrUpdateUserNotificationSettings"}}

UsageNames == {app.Pipelines[n].Name : n \in 1..Len(app.Pipelines)}

\* A hook or poller pipeline name that the apply phase cannot resolve: on
\* an existing application no identifier is ever filled in; on a new one
\* the name must be one of the descriptor's usages.
Unresolved(name) == exist \/ name \notin UsageNames

\* C5 (hard stop vs soft collect): a missing pipeline of a usage does not
\* stop the validation pass (every usage and trigger is still looked up);
\* an unresolved hook or poller pipeline during apply stops the import at
\* once: no later hook, no poller, no notification is persisted or
\* attempted, and the transaction is never committed.
C5_HardStopSoftCollect ==
    /\ Validated => ExpectedLookups \subseteq calls
    /\ app.RepositoriesManager =>
          /\ \A h \in 1..HooksLen :
                (\E g \in 1..h : Unresolved(app.Hooks[g])) =>
                    /\ \A c \in calls : ~(c[1] = "hook.CreateHook" /\ c[2] = h)
                    /\ <<"hook", h>> \notin store
          /\ \A h \in 1..PollersLen :
                (\E g \in 1..h : Unresolved(app.RepositoryPollers[g])) =>
                    /\ \A c \in calls : ~(c[1] = "poller.Insert" /\ c[2] = h)
                    /\ <<"poller", h>> \notin store
          /\ (\E g \in 1..HooksLen : Unresolved(app.Hooks[g])) =>
                /\ {c \in BindingCalls : c[1] # "hook.CreateHook"} = {}
                /\ pc \notin {"pollers", "pollerMsg", "notifs"}
          /\ (\E g \in 1..HooksLen : Unresolved(app.Hooks[g]))
               \/ (\E g \in 1..PollersLen : Unresolved(app.RepositoryPollers[g])) =>
                /\ {c \in BindingCalls :
                       c[1] = "notification.InsertOrUpdateUserNotificationSettings"} = {}
                /\ <<"tx.Commit">> \notin calls
                /\ tx # "committed"

C5_Witness ==
    /\ pc = "returned"
    /\ resp = ErrorResp("Pipeline not found for hook", "ErrPipelineNotFound")
    /\ ~exist
    /\ HooksLen = 2
    /\ i = 1
    /\ <<"application.Import">> \in calls

TriggerHasMissing(t) ==
    \/ t.DestApplication # AppName /\ ~applicationExists(t.DestApplication)
    \/ t.SrcEnvironment # DefaultEnvName /\ ~environmentExists(t.SrcEnvironment)
    \/ t.DestEnvironment # DefaultEnvName /\ ~environmentExists(t.DestEnvironment)

\* The descriptor has a reference the project does not resolve.
HasMissing ==
    \E n \in 1..Len(app.Pipelines) :
        \/ ~pipelineExistPipeline(app.Pipelines[n].Name)
        \/ \E m \in 1..Len(app.Pipelines[n].Triggers) :
              TriggerHasMissing(app.Pipelines[n].Triggers[m])

\* C6 (validation gates apply; one commit): when the descriptor has a
\* missing reference the apply phase never starts (no Import, no hook,
\* poller or notification, no last-modified update), nothing is written and
\* a returned call has rolled its transaction back; the transaction is
\* committed only with no missing reference and every apply step done, and
\* after the commit the handler is past the commit for good.
C6_CommitOnlyOnSuccess ==
    /\ HasMissing =>
          /\ <<"application.Import">> \notin calls
          /\ BindingCalls = {}
          /\ <<"project.UpdateLastModified">> \notin calls
          /\ <<"tx.Commit">> \notin calls
          /\ store = {} /\ txWrites = {}
          /\ tx # "committed"
          /\ pc = "returned" => tx \in {"none", "rolledback"}
    /\ tx = "committed" =>
          /\ ~HasMissing
          /\ globalError = "nil"
          /\ pc \in {"loadAll", "sanity", "returned"}
          /\ ~exist => <<"application", AppName>> \in store
          /\ app.RepositoriesManager =>
                /\ \A h \in 1..HooksLen : <<"hook", h>> \in store
                /\ \A h \in 1..PollersLen : <<"poller", h>> \in store
          /\ \A n \in 1..NotifsLen : <<"notification", n>> \in store
          /\ <<"lastModified">> \in store

C6_Witness ==
    /\ pc = "returned"
    /\ HasMissing
    /\ app.RepositoriesManager /\ HooksLen > 0 /\ NotifsLen > 0
    /\ tx = "rolledback"
    /\ resp.kind = "json"

\* The handler has run the render/dedup loop over the final allMsg.
Rendered == cpc = "exit" /\ pc # "render"

Texts == {String(allMsg[n]) : n \in 1..Len(allMsg)} \ {<<>>}

FirstOccurrence(s) ==
    CHOOSE n \in 1..Len(allMsg) :
        String(allMsg[n]) = s /\ \A m \in 1..(n - 1) : String(allMsg[m]) # s

\* C7 (dedup): the returned list holds every distinct non-empty rendered
\* text of the received messages exactly once, holds no empty text, and
\* orders its entries by the position of their first occurrence.
C7_Dedup ==
    Rendered =>
        /\ {msgListString[n] : n \in 1..Len(msgListString)} = Texts
        /\ Len(msgListString) = Cardinality(Texts)
        /\ \A a, b \in 1..Len(msgListString) :
              a < b => FirstOccurrence(msgListString[a])
                           < FirstOccurrence(msgListString[b])

C7_Witness ==
    /\ Rendered
    /\ Len(msgListString) >= 2
    /\ Len(allMsg) >= Len(msgListString) + 2

\* What the consumer has appended, without the value it appends when it
\* finds the queue closed.
Delivered ==
    IF cpc \in {"signal", "exit"} THEN SubSeq(allMsg, 1, Len(allMsg) - 1)
    ELSE allMsg

InHand == IF cpc = "append" /\ cmsg.ok THEN <<cmsg.msg>> ELSE <<>>

\* C8 (FIFO delivery): at every moment the messages appended by the
\* consumer, then the one it holds, then the one in the queue are exactly
\* the messages the handler sent, in the order sent: none lost, none
\* duplicated, none reordered.
C8_FIFO == Delivered \o InHand \o msgChan.buf = sent

C8_Witness ==
    /\ cpc = "exit"
    /\ Len(sent) >= 3
    /\ sent[1] # sent[2] /\ sent[2] # sent[3]

\* C9 (rendezvous safety): whenever the handler reads allMsg the queue is
\* closed and empty, the consumer has appended every message sent and has
\* terminated, so it cannot write allMsg any more.
C9_RendezvousSafety ==
    pc = "render" =>
        /\ msgChan.closed /\ msgChan.buf = <<>>
        /\ cpc = "exit"
        /\ Len(allMsg) = Len(sent) + 1
        /\ SubSeq(allMsg, 1, Len(sent)) = sent

C9_Witness == pc = "render" /\ Len(sent) >= 2

PostCommitCalls == {<<"application.LoadAll">>, <<"sanity.CheckApplication">>}

CommittedRecords ==
    {<<"lastModified">>}
        \cup (IF exist THEN {} ELSE {<<"application", AppName>>})
        \cup {<<"notification", n>> : n \in 1..NotifsLen}

\* C10 (post-commit advisory): the application reload and the sanity check
\* run only on a committed transaction; when either fails the call returns
\* an error and the transaction stays committed with every record it
\* committed still in the store.
C10_PostCommitAdvisory ==
    /\ (pc \in {"loadAll", "sanity"} \/ PostCommitCalls \cap calls # {}) =>
          /\ tx = "committed"
          /\ <<"tx.Commit">> \in calls
          /\ CommittedRecords \subseteq store
    /\ (pc = "returned" /\ PostCommitCalls \cap calls # {}) =>
          \/ resp = JSONResp(msgListString, "StatusOK")
          \/ resp = ErrorResp("Unable to reload applications", "errapp")
          \/ resp = ErrorResp("Cannot check warnings", "err")

C10_Witness ==
    /\ pc = "returned"
    /\ resp = ErrorResp("Cannot check warnings", "err")
    /\ NotifsLen > 0
    /\ {<<"application", AppName>>, <<"notification", 1>>} \subseteq store

\* ---- records of the application and of its bindings
AppRecords ==
    {r \in store \cup txWrites :
        r[1] \in {"application", "hook", "poller", "notification"}}

\* C11 (forceUpdate is a no-op): when the application exists and
\* forceUpdate is set, the call is not rejected with AlreadyExists, and it
\* neither inserts the application nor invokes or persists any hook, poller
\* or notification setting, whatever the descriptor declares.
C11_ForceUpdateNoOp ==
    (exist /\ forceUpdate) =>
        /\ AppRecords = {}
        /\ <<"application.Import">> \notin calls
        /\ BindingCalls = {}
        /\ pc = "returned" => resp # ErrorResp("", "ErrApplicationExist")

\* an existing application re-imported with forceUpdate, whose descriptor
\* declares a hook on one of its own pipelines and has a repository
\* manager: the call has ended and passed the existence guard
C11_Witness ==
    /\ exist /\ forceUpdate
    /\ pc = "returned"
    /\ app.RepositoriesManager
    /\ HooksLen > 0
    /\ app.Hooks[1] \in UsageNames
    /\ resp.kind = "error" /\ resp.cause = "ErrPipelineNotFound"

\* C12 (resolved references): hook creation, poller insertion and
\* notification upsert are never invoked with pipeline identifier zero, and
\* the notification upsert never with environment identifier zero; the
\* identifier a binding is invoked with is that of the usage of the name it
\* declares; an empty or default-sentinel environment name is invoked with
\* the default environment's identifier, any other name with the identifier
\* of the project environment of exactly that name.
C12_ResolvedReferences ==
    \A c \in BindingCalls :
        /\ c[3] # 0
        /\ c[1] = "hook.CreateHook" =>
              /\ app.Hooks[c[2]] \in UsageNames
              /\ c[3] = PipelineID(app.Hooks[c[2]])
        /\ c[1] = "poller.Insert" =>
              /\ app.RepositoryPollers[c[2]] \in UsageNames
              /\ c[3] = PipelineID(app.RepositoryPollers[c[2]])
        /\ c[1] = "notification.InsertOrUpdateUserNotificationSettings" =>
              LET notif == app.Notifications[c[2]] IN
              /\ notif.Pipeline \in UsageNames
              /\ c[3] = PipelineID(notif.Pipeline)
              /\ c[4] # 0
              /\ notif.Environment \in {"", DefaultEnvName} => c[4] = DefaultEnvID
              /\ notif.Environment \notin {"", DefaultEnvName} =>
                    /\ notif.Environment \in ProjectEnvironments
                    /\ c[4] = EnvironmentID(notif.Environment)

\* a hook was created and a notification on a named project environment
\* was upserted with that environment's identifier
C12_Witness ==
    /\ \E c \in calls : c[1] = "hook.CreateHook"
    /\ \E c \in calls :
          /\ c[1] = "notification.InsertOrUpdateUserNotificationSettings"
          /\ app.Notifications[c[2]].Environment \in ProjectEnvironments
          /\ c[4] = EnvironmentID(app.Notifications[c[2]].Environment)

\* ---- diagnostics of a kind, and records of a kind
CountMsgs(id) == Cardinality({n \in 1..Len(sent) : sent[n].ID = id})

CountRecords(kind) == Cardinality({r \in store : r[1] = kind})

\* the i-th binding of a kind is reported with the name it declares
Reported(id, names) ==
    LET at == {n \in 1..Len(sent) : sent[n].ID = id}
    IN \A n \in at :
          sent[n].Args = <<RepositoryFullname,
                           names[Cardinality({m \in at : m <= n})]>>

\* C13 (created diagnostics): the HookCreated diagnostics are as many as the
\* hooks persisted, one per hook and naming it, sent before the next hook is
\* processed (between the creation and its diagnostic the count is one
\* behind); the same for PollerCreated and pollers; and no step of the
\* notification loop, successful or unresolved, sends a diagnostic.
C13_CreatedDiagnostics ==
    /\ [](/\ CountMsgs("MsgHookCreated") =
               CountRecords("hook") - (IF pc = "hookMsg" THEN 1 ELSE 0)
          /\ CountMsgs("MsgPollerCreated") =
               CountRecords("poller") - (IF pc = "pollerMsg" THEN 1 ELSE 0)
          /\ Reported("MsgHookCreated", app.Hooks)
          /\ Reported("MsgPollerCreated", app.RepositoryPollers))
    /\ [][pc = "notifs" => sent' = sent]_vars

\* two hooks were created and reported, or one hook was created and
\* reported and a notification was then upserted
C13_Witness ==
    /\ CountRecords("hook") >= 1
    /\ CountMsgs("MsgHookCreated") = CountRecords("hook")
    /\ \/ CountRecords("hook") = 2
       \/ <<"notification", 1>> \in txWrites
    /\ pc \in {"close", "notifs"}

\* C14 (aggregator lifetime): on every return of the handler after the
\* consumer was spawned, whatever the path, msgChan has been closed and the
\* consumer has terminated; the consumer is not left blocked on its receive.
C14_AggregatorLifetime ==
    pc = "returned" => msgChan.closed /\ cpc = "exit"

\* C15 (aggregator liveness): with the consumer scheduled fairly, a message
\* in the queue is eventually taken, so a send never blocks forever and the
\* handler always comes to its return; once msgChan is closed the consumer
\* drains it, signals done and terminates; and a handler waiting at the
\* final rendezvous always passes it.
C15_AggregatorLiveness ==
    /\ (msgChan.buf # <<>>) ~> (msgChan.buf = <<>>)
    /\ msgChan.closed ~> (cpc = "exit" /\ msgChan.buf = <<>>)
    /\ (pc = "waitDone") ~> (pc = "render")
    /\ <>(pc = "returned")

\* the handler is about to send a HookCreated diagnostic while the queue
\* still holds the previous message: its send has to wait for the consumer
C15_Witness == pc = "hookMsg" /\ ~CanSend /\ ~msgChan.closed

\* the apply phase ran through all its loops without a hard stop
ApplyCompleted ==
    /\ globalError = "nil"
    /\ \/ pc \in {"close", "waitDone", "render", "respond",
                  "updateLastModified", "commit", "loadAll", "sanity"}
       \/ /\ pc = "returned"
          /\ \/ resp.kind = "json"
             \/ resp.kind = "error"
                /\ resp.msg \in {"Unable to update project",
                                 "Cannot commit transaction",
                                 "Unable to reload applications",
                                 "Cannot check warnings"}

\* C16 (repository-manager gating): without a repository manager no hook
\* or poller is resolved, invoked or persisted and the only diagnostics are
\* those of the validation pass and of the application insert, even when
\* the descriptor declares hooks or pollers on unknown pipelines; the
\* notifications are processed with or without a repository manager.
C16_RepositoryManagerGating ==
    /\ ~app.RepositoriesManager =>
          /\ pc \notin {"hooks", "hookMsg", "pollers", "pollerMsg"}
          /\ \A c \in calls : c[1] \notin {"hook.CreateHook", "poller.Insert"}
          /\ \A r \in store \cup txWrites : r[1] \notin {"hook", "poller"}
          /\ LET expected == ExpectedMisses IN
             \/ IsPrefix(sent, expected)
             \/ sent = expected \o <<NewMessage("MsgAppCreated", <<AppName>>)>>
          /\ pc = "returned" /\ resp.kind = "error" =>
                resp.msg \notin {"Pipeline not found for hook",
                                 "Pipeline not found",
                                 "Unable to insert hook",
                                 "Unable to insert poller"}
    /\ ApplyCompleted =>
          \A n \in 1..NotifsLen :
              \E c \in calls :
                  /\ c[1] = "notification.InsertOrUpdateUserNotificationSettings"
                  /\ c[2] = n

\* a new application without a repository manager whose descriptor lists a
\* hook on an unknown pipeline and a notification: the import committed
\* and the notification was stored
C16_Witness ==
    /\ ~app.RepositoriesManager
    /\ \E h \in 1..HooksLen : app.Hooks[h] \notin UsageNames
    /\ pc = "returned" /\ tx = "committed"
    /\ <<"notification", 1>> \in store

\* ---- the triggers the descriptor declares
AllTriggers ==
    UNION {{app.Pipelines[n].Triggers[m] :
               m \in 1..Len(app.Pipelines[n].Triggers)} :
           n \in 1..Len(app.Pipelines)}

SelfTrigger(t) ==
    /\ t.DestApplication = AppName
    /\ t.SrcEnvironment = DefaultEnvName
    /\ t.DestEnvironment = DefaultEnvName

\* C17 (trigger check conditions): an application is looked up, and can be
\* reported ApplicationNotFound, only as the destination of a trigger and
\* only under a name other than the imported application's; an environment
\* is looked up, and can be reported EnvironmentNotFound, only as the
\* source or destination environment of a trigger and only under a name
\* other than the default sentinel; when every trigger targets the imported
\* application with both environments at the sentinel, no application or
\* environment is looked up and no such diagnostic is sent.
C17_TriggerCheckConditions ==
    /\ \A c \in Lookups :
          /\ c[1] = "application.Exists" =>
                /\ c[2] # AppName
                /\ \E t \in AllTriggers : t.DestApplication = c[2]
          /\ c[1] = "environment.Exists" =>
                /\ c[2] # DefaultEnvName
                /\ \E t \in AllTriggers :
                      c[2] \in {t.SrcEnvironment, t.DestEnvironment}
    /\ \A n \in 1..Len(sent) :
          /\ sent[n].ID = "MsgAppImportAppNotFound" =>
                /\ sent[n].Args[1] # AppName
                /\ <<"application.Exists", sent[n].Args[1]>> \in calls
          /\ sent[n].ID = "MsgAppImportEnvNotFound" =>
                /\ sent[n].Args[1] # DefaultEnvName
                /\ <<"environment.Exists", sent[n].Args[1]>> \in calls
    /\ (\A t \in AllTriggers : SelfTrigger(t)) =>
          /\ \A c \in Lookups : c[1] = "pipeline.ExistPipeline"
          /\ \A n \in 1..Len(sent) :
                sent[n].ID \notin {"MsgAppImportAppNotFound",
                                   "MsgAppImportEnvNotFound"}

\* a new application with a trigger on itself, both environments at the
\* sentinel: validated with the pipeline lookups only, and committed
C17_Witness ==
    /\ ~exist
    /\ AllTriggers # {}
    /\ \A t \in AllTriggers : SelfTrigger(t)
    /\ pc = "returned" /\ tx = "committed"
    /\ Lookups # {}

\* ---- returns taken on a failed validation lookup, 126, 138, 149, 160
LookupFailureMsgs == {"Unable to check pipeline", "Unable to check application",
                      "Unable to check env"}

\* C18 (store failure during validation): when a validation lookup returns
\* a store error the import ends at once with a failure whose cause is that
\* lookup's own error (err), the transaction is rolled back and nothing is
\* committed.
C18_StoreFailureDuringValidation ==
    (pc = "returned" /\ resp.kind = "error" /\ resp.msg \in LookupFailureMsgs) =>
        /\ resp.cause = "err"
        /\ tx = "rolledback"
        /\ store = {}
        /\ txWrites = {}

\* the error kind assigned next to each not-found diagnostic, 129-164
ErrOf(msgID) ==
    CASE msgID = "MsgAppImportPipelineNotFound" -> "ErrPipelineNotFound"
      [] msgID = "MsgAppImportAppNotFound" -> "ErrApplicationNotFound"
      [] msgID = "MsgAppImportEnvNotFound" -> "ErrNoEnvironment"
      [] OTHER -> "nil"

\* C19 (dominant error): during validation the pending error is the kind of
\* the last missing reference reported so far; the status of a rejected
\* import is the kind of the last missing reference of the descriptor in
\* validation order, not of the first, while the diagnostic of every
\* missing reference, earlier ones included, is in the returned list.
C19_DominantError ==
    /\ (pc \in {"validate", "apply"} /\ sent # <<>>) =>
          globalError = ErrOf(sent[Len(sent)].ID)
    /\ (pc = "returned" /\ resp.kind = "json" /\ HasMissing) =>
          LET expected == ExpectedMisses IN
          /\ resp.status = ErrOf(expected[Len(expected)].ID)
          /\ \A n \in 1..Len(expected) :
                \E m \in 1..Len(resp.body) : resp.body[m] = String(expected[n])

\* a rejected import whose first and last missing references are of
\* different kinds
C19_Witness ==
    /\ pc = "returned" /\ resp.kind = "json"
    /\ Len(sent) >= 2
    /\ ErrOf(sent[1].ID) # "nil"
    /\ ErrOf(sent[1].ID) # ErrOf(sent[Len(sent)].ID)
    /\ resp.status = ErrOf(sent[Len(sent)].ID)

\* the distinct non-empty renderings of the messages sent
SentTexts == {String(sent[n]) : n \in 1..Len(sent)} \ {<<>>}

\* C20 (close sentinel): once the rendezvous is passed allMsg is the
\* messages sent, in order, followed by exactly one zero-value message
\* appended on the close; that element renders to the empty string and
\* gives no entry, so the rendered list has exactly as many entries as
\* there are distinct non-empty rendered texts among the messages sent.
C20_CloseSentinel ==
    cpc = "exit" =>
        /\ allMsg = Append(sent, ZeroMessage)
        /\ pc # "render" =>
              /\ \A n \in 1..Len(msgListString) :
                    /\ msgListString[n] # String(ZeroMessage)
                    /\ msgListString[n] \in SentTexts
              /\ Len(msgListString) = Cardinality(SentTexts)

\* the list was rendered from two or more sent messages and the sentinel
C20_Witness ==
    /\ cpc = "exit" /\ pc = "respond"
    /\ Len(sent) >= 2
    /\ allMsg[Len(allMsg)] = ZeroMessage
    /\ Len(allMsg) = Len(sent) + 1
    /\ msgListString # <<>>

====
